---- MODULE Spec2Model ----
(***************************************************************************)
(* Digital weigh scale (Final_WeighScale.ino): the Scale object, its       *)
(* setup() and loop(), the two button interrupt handlers, the millis()     *)
(* clock and the HX711 amplifier as the environment.                       *)
(*                                                                         *)
(* The main program is one thread whose position is pc; every action       *)
(* below is one statement (or one straight-line group of statements) of    *)
(* the sketch.  The interrupt handlers and the clock tick run between any  *)
(* two of them.  Weights are kept exact as scaled integers:                *)
(* WeightScaled = weight * COUNT_DIFFERENCE.                               *)
(***************************************************************************)
EXTENDS Integers, Sequences, FiniteSets, Bags, TLC

\* ---------------------------------------------------------------- constants
TARE_SAMPLES == 10
KNOWN_WEIGHT == 200
RAW_0G == 16773520
RAW_100G == 16758735
WEIGHT_DIFFERENCE == 100
COUNT_DIFFERENCE == RAW_0G - RAW_100G
DISPLAY_UPDATE_INTERVAL == 1000
\* the literals of delay(2000) and of the wait loop's 5000
PAUSE_MS == 2000
CALIBRATION_WAIT == 5000

\* the HX711 delivers 24 bits; depending on the driver they are read as a
\* two's complement or as an unsigned number
RAW_MIN == -(2^23)
RAW_MAX == 2^24 - 1
LONG_MAX == 2147483647
LONG_MIN == -LONG_MAX - 1

\* ------------------------------------------------------------------- bounds
\* clock ticks per display interval: the clock advances in steps of TickMs
TicksPerInterval == 2
\* the per-flag press counter saturates here
MaxPresses == 2
TickMs == DISPLAY_UPDATE_INTERVAL \div TicksPerInterval
\* millis() is kept in a window of this length (see Tick)
MaxTime == CALIBRATION_WAIT

\* readings the amplifier delivers while the whole program runs
RawValues == {RAW_100G, RAW_0G}
\* readings for the liveness specification (values play no part in it)
LiveRawValues == {RAW_0G}
\* readings for the specification of the tare estimator alone
RawRange == {RAW_MIN, -1, 0, 7, RAW_100G, RAW_0G, RAW_MAX}

\* ------------------------------------------------------------------ helpers
Max(a, b) == IF a >= b THEN a ELSE b
Min(a, b) == IF a <= b THEN a ELSE b

\* C's integer division truncates toward zero
TruncDiv(a, b) == IF a >= 0 THEN a \div b ELSE -((-a) \div b)

\* sum += x on a 16-bit int
AddLong_Int16(a, b) == ((a + b + 2^15) % 2^16) - 2^15

\* sum += x on a 32-bit signed long (two's complement wrap)
AddLong(a, b) ==
  IF b > 0 /\ a > LONG_MAX - b THEN (a - LONG_MAX - 1) + (b - LONG_MAX - 1)
  ELSE IF b < 0 /\ a < LONG_MIN - b THEN (a + LONG_MAX + 1) + (b + LONG_MAX + 1)
  ELSE a + b

RECURSIVE BagSum(_)
BagSum(b) ==
  IF DOMAIN b = {} THEN 0
  ELSE LET v == CHOOSE x \in DOMAIN b : TRUE
       IN v * b[v] + BagSum([x \in DOMAIN b \ {v} |-> b[x]])

\* the truncated arithmetic mean of a bag of readings
Mean(b) == TruncDiv(BagSum(b), TARE_SAMPLES)

\* KNOWN_WEIGHT / CALIBRATION_FACTOR: 200 / (100 / 14785) = 29570, which the
\* float arithmetic of the sketch yields exactly (every integer below 2^24 is
\* a float, and so is raw - 29570 for every 24-bit raw)
KnownCounts == (KNOWN_WEIGHT * COUNT_DIFFERENCE) \div WEIGHT_DIFFERENCE

\* a getWeight that leaves out the * (-1)
WeightScaled_NoNegation(raw, t) == (raw - t) * WEIGHT_DIFFERENCE

\* getWeight's arithmetic on a reading: (raw - tare) * CALIBRATION_FACTOR * (-1),
\* times COUNT_DIFFERENCE to stay in the integers
WeightScaled(raw, t) == (raw - t) * WEIGHT_DIFFERENCE * (-1)

\* calibrateScale's new tare from the averaged known-weight reading
CalibratedTare(rawKnown) == rawKnown - KnownCounts

VARIABLES
  pc,               \* position of the main program
  calibratePressed, \* volatile flag, line 57
  resetPressed,     \* volatile flag, line 58
  tare,             \* Scale::tare
  lastUpdateTime,   \* Scale::lastUpdateTime
  currentTime,      \* loop()'s local
  startTime,        \* calibrateScale()'s local
  sum, i,           \* the sampling loops' locals
  rawKnown,         \* calibrateScale()'s local raw_known_weight
  raw,              \* getWeight()'s local: the reading the shown weight is of
  weight,           \* updateDisplay()'s local: {} outside, else {the weight, scaled}
  resetRet,         \* who called resetScale: "loop" or "cal"
  tareRet,          \* who called tareScale: "setup" or "reset"
  now,              \* millis()
  delayLeft,        \* what is left of the running delay()
  ticked,           \* the clock ticked since the main program's last step
  ampStalled,       \* the amplifier has stopped delivering samples
  \* history variables, read by the properties only
  samples,          \* the readings of the current (or last) sampling loop
  tareSource,       \* who wrote tare last
  took,             \* branches this loop iteration took
  bothAtCheck,      \* both flags were set at this iteration's line 110
  resetPressSince,  \* a reset press arrived after this iteration's line 110
  iterResetRuns,    \* resetScale calls of this iteration
  resetRoseInWait,  \* resetPressed went true inside this call's wait loop,
                    \* less than CALIBRATION_WAIT after startTime
  calWrote,         \* this iteration's calibrateScale wrote tare
  runsSinceSet,     \* per button: action runs since its flag went true
  pressesSinceSet,  \* per button: presses since (and with) the one that set it
  refreshAt         \* {millis() at the last updateDisplay call}, {} before

vars == <<pc, calibratePressed, resetPressed, tare, lastUpdateTime, currentTime,
          startTime, sum, i, rawKnown, raw, weight, resetRet, tareRet, now, delayLeft,
          ticked, ampStalled, samples, tareSource, took, bothAtCheck,
          resetPressSince, iterResetRuns, resetRoseInWait, calWrote,
          runsSinceSet, pressesSinceSet, refreshAt>>

flags == <<calibratePressed, resetPressed>>
times == <<lastUpdateTime, currentTime, startTime>>
locals == <<sum, i, rawKnown, raw, weight>>
calls == <<resetRet, tareRet>>
prog == <<tare, times, locals, calls, delayLeft>>
env == <<now, ampStalled>>
iter == <<took, bothAtCheck, resetPressSince, iterResetRuns, resetRoseInWait,
          calWrote>>
served == <<runsSinceSet, pressesSinceSet>>
hist == <<samples, tareSource, iter, served, refreshAt>>

NoBranch == [cal |-> FALSE, reset |-> FALSE, refresh |-> FALSE]

\* the state after the Scale constructor (lines 71-74), before setup()
Init ==
  /\ pc = "setup"
  /\ calibratePressed = FALSE
  /\ resetPressed = FALSE
  /\ tare = 0
  /\ lastUpdateTime = 0
  /\ currentTime = 0
  /\ startTime = 0
  /\ sum = 0
  /\ i = 0
  /\ raw = 0
  /\ weight = {}
  /\ resetRet = "loop"
  /\ tareRet = "setup"
  /\ now = 0
  /\ delayLeft = 0
  /\ ticked = FALSE
  /\ ampStalled = FALSE
  /\ samples = EmptyBag
  /\ rawKnown = 0
  /\ tareSource = "constructor"
  /\ took = NoBranch
  /\ bothAtCheck = FALSE
  /\ resetPressSince = FALSE
  /\ iterResetRuns = 0
  /\ resetRoseInWait = FALSE
  /\ calWrote = FALSE
  /\ runsSinceSet = [cal |-> 0, reset |-> 0]
  /\ pressesSinceSet = [cal |-> 0, reset |-> 0]
  /\ refreshAt = {}

\* ------------------------------------------------------------- environment
\* where the main program waits inside scale.read()
ReadLocs == {"tare_sample", "cal_sample", "upd_weight", "upd_count"}
\* where the main program is inside the 5000 ms wait loop (lines 152-158)
WaitLocs == {"wait_cond", "wait_chk"}

\* the heads of the two polling loops: loop() and the wait loop
PollLocs == {"loop", "wait_cond"}

Blocked == delayLeft > 0 \/ pc \in ReadLocs

\* millis() advances by one tick.  It ticks freely inside delay() and
\* scale.read(); a pass of a polling loop that does not wait takes less than
\* a tick, so the clock ticks at most once per pass (at the loop's head).
\* The sketch reads time stamps only in differences that it compares with a
\* threshold: millis() - startTime with CALIBRATION_WAIT, and (through
\* currentTime) millis() - lastUpdateTime with DISPLAY_UPDATE_INTERVAL.  A
\* stamp older than its threshold is therefore moved up to it (the
\* differences saturate, every comparison keeps its value), and past MaxTime
\* the origin of time moves along, which keeps millis() finite.
Tick ==
  /\ Blocked \/ (~ticked /\ pc \in PollLocs)
  /\ ticked' = TRUE
  /\ delayLeft' = Max(delayLeft - TickMs, 0)
  /\ LET n1 == now + TickMs
         c1 == Max(currentTime, n1 - DISPLAY_UPDATE_INTERVAL)
         l1 == Max(lastUpdateTime + (c1 - currentTime),
                   c1 - DISPLAY_UPDATE_INTERVAL)
         s1 == Max(startTime, n1 - CALIBRATION_WAIT)
         back == Max(n1 - MaxTime, 0)
     IN /\ now' = n1 - back
        /\ currentTime' = c1 - back
        /\ lastUpdateTime' = l1 - back
        /\ startTime' = s1 - back
        /\ refreshAt' = {Max(t, n1 - DISPLAY_UPDATE_INTERVAL) - back : t \in refreshAt}
  /\ UNCHANGED <<pc, flags, tare, locals, calls, ampStalled, samples, tareSource,
                 iter, served>>

Pressed(n) == Min(n + 1, MaxPresses)

\* lines 206-208; the handlers are attached by setup(), lines 88-89
onCalibrateButtonPress ==
  /\ pc # "setup"
  /\ calibratePressed' = TRUE
  /\ runsSinceSet' = IF calibratePressed THEN runsSinceSet
                     ELSE [runsSinceSet EXCEPT !.cal = 0]
  /\ pressesSinceSet' = [pressesSinceSet EXCEPT
                           !.cal = IF calibratePressed THEN Pressed(@) ELSE 1]
  /\ UNCHANGED <<pc, resetPressed, prog, env, ticked, samples, tareSource, iter,
                 refreshAt>>

\* a reset handler that also withdraws a pending calibrate request
onResetButtonPress_CancelsCalibrate ==
  /\ pc # "setup"
  /\ resetPressed' = TRUE
  /\ calibratePressed' = FALSE
  /\ runsSinceSet' = [cal |-> 0,
                      reset |-> IF resetPressed THEN runsSinceSet.reset ELSE 0]
  /\ pressesSinceSet' = [cal |-> 0,
                         reset |-> IF resetPressed
                                     THEN Pressed(pressesSinceSet.reset) ELSE 1]
  /\ UNCHANGED <<pc, prog, env, ticked, samples, tareSource, iter, refreshAt>>

\* lines 211-213
onResetButtonPress ==
  /\ pc # "setup"
  /\ resetPressed' = TRUE
  /\ runsSinceSet' = IF resetPressed THEN runsSinceSet
                     ELSE [runsSinceSet EXCEPT !.reset = 0]
  /\ pressesSinceSet' = [pressesSinceSet EXCEPT
                           !.reset = IF resetPressed THEN Pressed(@) ELSE 1]
  /\ resetPressSince' = (resetPressSince \/ bothAtCheck)
  /\ resetRoseInWait' =
       (resetRoseInWait \/ (/\ pc \in WaitLocs
                            /\ ~resetPressed
                            /\ now - startTime < CALIBRATION_WAIT))
  /\ UNCHANGED <<pc, calibratePressed, prog, env, ticked, samples, tareSource,
                 took, bothAtCheck, iterResetRuns, calWrote, refreshAt>>

\* the amplifier stops delivering samples: scale.read() never returns again
AmpStall ==
  /\ pc \in ReadLocs
  /\ ~ampStalled
  /\ ampStalled' = TRUE
  /\ UNCHANGED <<pc, flags, prog, now, ticked, hist>>

\* ------------------------------------------------------------ main program
\* a statement of the main program: it is not the clock's or the amplifier's
Step == ticked' = FALSE /\ UNCHANGED env

\* setup(), lines 77-96: displays, HX711, buttons, greeting, first pause
Setup ==
  /\ pc = "setup"
  /\ pc' = "setup_pause1"
  /\ delayLeft' = PAUSE_MS
  /\ Step
  /\ UNCHANGED <<flags, tare, times, locals, calls, hist>>

\* tareScale() is called by `from` (line 132)
CallTare(from) ==
  /\ pc' = "tare_sample"
  /\ tareRet' = from
  /\ sum' = 0
  /\ i' = 0
  /\ samples' = EmptyBag

\* lines 97-98: the pause is over
SetupTare ==
  /\ pc = "setup_pause1"
  /\ delayLeft = 0
  /\ CallTare("setup")
  /\ Step
  /\ UNCHANGED <<flags, tare, times, rawKnown, raw, weight, resetRet, delayLeft,
                 tareSource, iter, served, refreshAt>>

\* a sampling loop that stops one reading short
SamplingDone_OneShort(n) == n = TARE_SAMPLES - 1

\* the sampling loops end after TARE_SAMPLES readings (lines 133, 161)
SamplingDone(n) == n = TARE_SAMPLES

\* sum / TARE_SAMPLES on longs (lines 136, 164)
TareMean(s) == TruncDiv(s, TARE_SAMPLES)

\* lines 133-135: one pass of tareScale's loop, scale.read() returning v
TareSample(vals) ==
  /\ pc = "tare_sample"
  /\ ~ampStalled
  /\ \E v \in vals :
       /\ sum' = AddLong(sum, v)
       /\ samples' = samples (+) SetToBag({v})
  /\ i' = i + 1
  /\ pc' = IF SamplingDone(i + 1) THEN "tare_store" ELSE "tare_sample"
  /\ Step
  /\ UNCHANGED <<flags, tare, times, rawKnown, raw, weight, calls, delayLeft,
                 tareSource, iter, served, refreshAt>>

\* where tareScale returns to: setup (line 99), or through resetScale
\* (line 190) to line 155 or line 118
TareReturn ==
  IF tareRet = "setup" THEN "setup_msg"
  ELSE IF resetRet = "cal" THEN "wait_clear" ELSE "reset_clear"

\* line 136, and the return (the locals end with the call)
TareStore ==
  /\ pc = "tare_store"
  /\ tare' = TareMean(sum)
  /\ tareSource' = IF tareRet = "setup" THEN "startup" ELSE "reset"
  /\ sum' = 0
  /\ i' = 0
  /\ pc' = TareReturn
  /\ Step
  /\ UNCHANGED <<flags, times, rawKnown, raw, weight, calls, delayLeft, samples, iter,
                 served, refreshAt>>

\* lines 99-101
SetupMsg ==
  /\ pc = "setup_msg"
  /\ pc' = "setup_pause2"
  /\ delayLeft' = PAUSE_MS
  /\ Step
  /\ UNCHANGED <<flags, tare, times, locals, calls, hist>>

\* line 102: setup() returns, loop() is called from now on
SetupDone ==
  /\ pc = "setup_pause2"
  /\ delayLeft = 0
  /\ pc' = "loop"
  /\ Step
  /\ UNCHANGED <<flags, prog, hist>>

\* line 107; a new iteration starts
LoopStart ==
  /\ pc = "loop"
  /\ currentTime' = now
  /\ pc' = "chk_cal"
  /\ took' = NoBranch
  /\ bothAtCheck' = FALSE
  /\ resetPressSince' = FALSE
  /\ iterResetRuns' = 0
  /\ resetRoseInWait' = FALSE
  /\ calWrote' = FALSE
  /\ Step
  /\ UNCHANGED <<flags, tare, lastUpdateTime, startTime, locals, calls,
                 delayLeft, samples, tareSource, served, refreshAt>>

Ran(c) == Min(c + 1, 2)

\* line 110; when the flag is set, calibrateScale() is called and runs up to
\* its wait loop (lines 147-151)
ChkCal ==
  /\ pc = "chk_cal"
  /\ bothAtCheck' = (calibratePressed /\ resetPressed)
  /\ IF calibratePressed
       THEN /\ pc' = "wait_cond"
            /\ startTime' = now
            /\ took' = [took EXCEPT !.cal = TRUE]
            /\ runsSinceSet' = [runsSinceSet EXCEPT !.cal = Ran(@)]
       ELSE /\ pc' = "chk_reset"
            /\ UNCHANGED <<startTime, took, runsSinceSet>>
  /\ Step
  /\ UNCHANGED <<flags, tare, lastUpdateTime, currentTime, locals, calls,
                 delayLeft, samples, tareSource, resetPressSince, iterResetRuns,
                 resetRoseInWait, calWrote, pressesSinceSet, refreshAt>>

\* a wait loop that takes its start time anew in every pass
WaitCond_RestartsClock ==
  /\ pc = "wait_cond"
  /\ pc' = "wait_chk"
  /\ startTime' = now
  /\ Step
  /\ UNCHANGED <<flags, tare, lastUpdateTime, currentTime, locals, calls,
                 delayLeft, hist>>

\* line 152: the wait loop's condition; when it fails, line 160 (startTime
\* is not read again)
WaitCond ==
  /\ pc = "wait_cond"
  /\ IF now - startTime < CALIBRATION_WAIT
       THEN /\ pc' = "wait_chk"
            /\ UNCHANGED <<startTime, sum, i, samples>>
       ELSE /\ pc' = "cal_sample"
            /\ startTime' = 0
            /\ sum' = 0
            /\ i' = 0
            /\ samples' = EmptyBag
  /\ Step
  /\ UNCHANGED <<flags, tare, lastUpdateTime, currentTime, rawKnown, raw, weight,
                 calls, delayLeft, tareSource, iter, served, refreshAt>>

\* resetScale() is called by `from` and runs up to its first pause
\* (lines 178-183)
CallReset(from) ==
  /\ pc' = "reset_pause1"
  /\ resetRet' = from
  /\ tare' = 0
  /\ tareSource' = "zero"
  /\ samples' = EmptyBag
  /\ delayLeft' = PAUSE_MS
  /\ iterResetRuns' = Ran(iterResetRuns)
  /\ runsSinceSet' = [runsSinceSet EXCEPT !.reset = Ran(@)]

\* a wait loop that does not look at the reset flag
WaitChk_NeverAborts ==
  /\ pc = "wait_chk"
  /\ pc' = "wait_cond"
  /\ Step
  /\ UNCHANGED <<flags, prog, hist>>

\* line 153, and line 154's call (startTime is not read again)
WaitChk ==
  /\ pc = "wait_chk"
  /\ IF resetPressed
       THEN /\ CallReset("cal")
            /\ startTime' = 0
       ELSE /\ pc' = "wait_cond"
            /\ UNCHANGED <<resetRet, tare, tareSource, samples, delayLeft,
                           iterResetRuns, runsSinceSet, startTime>>
  /\ Step
  /\ UNCHANGED <<flags, lastUpdateTime, currentTime, locals, tareRet, took,
                 bothAtCheck,
                 resetPressSince, resetRoseInWait, calWrote, pressesSinceSet,
                 refreshAt>>

\* lines 184-187
ResetMsg ==
  /\ pc = "reset_pause1"
  /\ delayLeft = 0
  /\ pc' = "reset_pause2"
  /\ delayLeft' = PAUSE_MS
  /\ Step
  /\ UNCHANGED <<flags, tare, times, locals, calls, hist>>

\* a resetScale() that returns without the re-tare
ResetRetare_Skipped ==
  /\ pc = "reset_pause2"
  /\ delayLeft = 0
  /\ pc' = IF resetRet = "cal" THEN "wait_clear" ELSE "reset_clear"
  /\ Step
  /\ UNCHANGED <<flags, prog, hist>>

\* lines 188-189
ResetRetare ==
  /\ pc = "reset_pause2"
  /\ delayLeft = 0
  /\ CallTare("reset")
  /\ Step
  /\ UNCHANGED <<flags, tare, times, rawKnown, raw, weight, resetRet, delayLeft,
                 tareSource, iter, served, refreshAt>>

\* button b's flag is cleared: its counters start afresh
Cleared(b) ==
  /\ runsSinceSet' = [runsSinceSet EXCEPT ![b] = 0]
  /\ pressesSinceSet' = [pressesSinceSet EXCEPT ![b] = 0]

\* an abort path that goes past the clearing of the calibrate flag
WaitClear_KeepsRequest ==
  /\ pc = "wait_clear"
  /\ resetPressed' = FALSE
  /\ Cleared("reset")
  /\ pc' = "chk_reset"
  /\ Step
  /\ UNCHANGED <<calibratePressed, prog, samples, tareSource, iter, refreshAt>>

\* an abort path that leaves the reset flag set
WaitClear_KeepsFlag ==
  /\ pc = "wait_clear"
  /\ pc' = "cal_clear"
  /\ Step
  /\ UNCHANGED <<flags, prog, hist>>

\* lines 155-156: the aborted calibrateScale() returns to line 112
WaitClear ==
  /\ pc = "wait_clear"
  /\ resetPressed' = FALSE
  /\ Cleared("reset")
  /\ pc' = "cal_clear"
  /\ Step
  /\ UNCHANGED <<calibratePressed, prog, samples, tareSource, iter, refreshAt>>

\* a sampling pass whose read gives up waiting and returns all the same
CalSample_ReadTimesOut(vals) ==
  /\ pc = "cal_sample"
  /\ \E v \in vals :
       /\ sum' = AddLong(sum, v)
       /\ samples' = samples (+) SetToBag({v})
  /\ i' = i + 1
  /\ pc' = IF SamplingDone(i + 1) THEN "cal_store" ELSE "cal_sample"
  /\ Step
  /\ UNCHANGED <<flags, tare, times, rawKnown, raw, weight, calls, delayLeft,
                 tareSource, iter, served, refreshAt>>

\* lines 161-163: one pass of calibrateScale's loop, scale.read() returning v
CalSample(vals) ==
  /\ pc = "cal_sample"
  /\ ~ampStalled
  /\ \E v \in vals :
       /\ sum' = AddLong(sum, v)
       /\ samples' = samples (+) SetToBag({v})
  /\ i' = i + 1
  /\ pc' = IF SamplingDone(i + 1) THEN "cal_store" ELSE "cal_sample"
  /\ Step
  /\ UNCHANGED <<flags, tare, times, rawKnown, raw, weight, calls, delayLeft,
                 tareSource, iter, served, refreshAt>>

\* lines 164-172
CalStore ==
  /\ pc = "cal_store"
  /\ rawKnown' = TareMean(sum)
  /\ tare' = CalibratedTare(TareMean(sum))
  /\ tareSource' = "calibration"
  /\ calWrote' = TRUE
  /\ sum' = 0
  /\ i' = 0
  /\ delayLeft' = PAUSE_MS
  /\ pc' = "cal_pause"
  /\ Step
  /\ UNCHANGED <<flags, times, raw, weight, calls, samples, took, bothAtCheck,
                 resetPressSince, iterResetRuns, resetRoseInWait, served,
                 refreshAt>>

\* lines 173-174: calibrateScale() returns to line 112 (its locals end)
CalDone ==
  /\ pc = "cal_pause"
  /\ delayLeft = 0
  /\ rawKnown' = 0
  /\ pc' = "cal_clear"
  /\ Step
  /\ UNCHANGED <<flags, tare, times, sum, i, raw, weight, calls, delayLeft,
                 hist>>

\* a calibrate branch that clears both request flags when it is done
CalClear_ClearsBoth ==
  /\ pc = "cal_clear"
  /\ calibratePressed' = FALSE
  /\ resetPressed' = FALSE
  /\ runsSinceSet' = [cal |-> 0, reset |-> 0]
  /\ pressesSinceSet' = [cal |-> 0, reset |-> 0]
  /\ pc' = "chk_reset"
  /\ Step
  /\ UNCHANGED <<prog, samples, tareSource, iter, refreshAt>>

\* line 112
CalClear ==
  /\ pc = "cal_clear"
  /\ calibratePressed' = FALSE
  /\ Cleared("cal")
  /\ pc' = "chk_reset"
  /\ Step
  /\ UNCHANGED <<resetPressed, prog, samples, tareSource, iter, refreshAt>>

\* line 116, and line 117's call
ChkReset ==
  /\ pc = "chk_reset"
  /\ IF resetPressed
       THEN /\ CallReset("loop")
            /\ took' = [took EXCEPT !.reset = TRUE]
       ELSE /\ pc' = "chk_refresh"
            /\ UNCHANGED <<resetRet, tare, tareSource, samples, delayLeft,
                           iterResetRuns, runsSinceSet, took>>
  /\ Step
  /\ UNCHANGED <<flags, times, locals, tareRet, bothAtCheck, resetPressSince,
                 resetRoseInWait, calWrote, pressesSinceSet, refreshAt>>

\* a reset branch without the return
AfterResetBranch_FallsThrough == "chk_refresh"

\* line 119: where the reset branch goes on
AfterResetBranch == "loop"

\* a reset branch that clears both flags
ResetClear_ClearsBoth ==
  /\ pc = "reset_clear"
  /\ resetPressed' = FALSE
  /\ calibratePressed' = FALSE
  /\ runsSinceSet' = [cal |-> 0, reset |-> 0]
  /\ pressesSinceSet' = [cal |-> 0, reset |-> 0]
  /\ pc' = "loop"
  /\ Step
  /\ UNCHANGED <<prog, samples, tareSource, iter, refreshAt>>

\* lines 118-119
ResetClear ==
  /\ pc = "reset_clear"
  /\ resetPressed' = FALSE
  /\ Cleared("reset")
  /\ pc' = AfterResetBranch
  /\ Step
  /\ UNCHANGED <<calibratePressed, prog, samples, tareSource, iter, refreshAt>>

\* the interval compared with > instead of >=
RefreshDue_Strict == currentTime - lastUpdateTime > DISPLAY_UPDATE_INTERVAL

\* line 123's condition
RefreshDue == currentTime - lastUpdateTime >= DISPLAY_UPDATE_INTERVAL

\* line 123, and line 124's call of updateDisplay()
ChkRefresh ==
  /\ pc = "chk_refresh"
  /\ IF RefreshDue
       THEN /\ pc' = "upd_weight"
            /\ took' = [took EXCEPT !.refresh = TRUE]
            /\ refreshAt' = {now}
       ELSE /\ pc' = "loop"
            /\ UNCHANGED <<took, refreshAt>>
  /\ Step
  /\ UNCHANGED <<flags, prog, samples, tareSource, bothAtCheck, resetPressSince,
                 iterResetRuns, resetRoseInWait, calWrote, served>>

\* a getWeight that zeroes the scale on the reading it shows
UpdWeight_Retares(vals) ==
  /\ pc = "upd_weight"
  /\ ~ampStalled
  /\ \E v \in vals :
       /\ raw' = v
       /\ tare' = v
       /\ weight' = {WeightScaled(v, v)}
  /\ pc' = "upd_count"
  /\ Step
  /\ UNCHANGED <<flags, times, sum, i, rawKnown, calls, delayLeft, hist>>

\* line 194: getWeight() (lines 141-142) on a reading; lines 195-199 show it
UpdWeight(vals) ==
  /\ pc = "upd_weight"
  /\ ~ampStalled
  /\ \E v \in vals :
       /\ raw' = v
       /\ weight' = {WeightScaled(v, tare)}
  /\ pc' = "upd_count"
  /\ Step
  /\ UNCHANGED <<flags, tare, times, sum, i, rawKnown, calls, delayLeft, hist>>

\* lines 200-203: the second reading, printed as the count; updateDisplay()
\* returns (its local ends)
UpdCount ==
  /\ pc = "upd_count"
  /\ ~ampStalled
  /\ raw' = 0
  /\ weight' = {}
  /\ pc' = "upd_stamp"
  /\ Step
  /\ UNCHANGED <<flags, tare, times, sum, i, rawKnown, calls, delayLeft, hist>>

\* line 125
UpdStamp ==
  /\ pc = "upd_stamp"
  /\ lastUpdateTime' = currentTime
  /\ pc' = "loop"
  /\ Step
  /\ UNCHANGED <<flags, tare, currentTime, startTime, locals, calls, delayLeft,
                 hist>>

\* ----------------------------------------------------------- specifications
Main(vals) ==
  \/ Setup \/ SetupTare \/ TareSample(vals) \/ TareStore \/ SetupMsg \/ SetupDone
  \/ LoopStart \/ ChkCal \/ WaitCond \/ WaitChk \/ ResetMsg \/ ResetRetare
  \/ WaitClear \/ CalSample(vals) \/ CalStore \/ CalDone \/ CalClear
  \/ ChkReset \/ ResetClear \/ ChkRefresh \/ UpdWeight(vals) \/ UpdCount
  \/ UpdStamp

Next ==
  \/ Main(RawValues)
  \/ Tick
  \/ onCalibrateButtonPress
  \/ onResetButtonPress
  \/ AmpStall

Spec == Init /\ [][Next]_vars

\* The program with an amplifier that always delivers and a clock that keeps
\* ticking: the main program is the only thread and is never suspended for
\* good (the handlers return), millis() is driven by a hardware timer.  A
\* polling loop lets the clock tick once per pass, so the tick is enabled
\* again and again rather than all the time: the timer's progress is strong
\* fairness of Tick.
LiveNext ==
  \/ Main(LiveRawValues)
  \/ Tick
  \/ onCalibrateButtonPress
  \/ onResetButtonPress

LiveSpec ==
  Init /\ [][LiveNext]_vars /\ WF_vars(Main(LiveRawValues)) /\ SF_vars(Tick)

\* The two sampling loops alone, on readings from the whole raw range:
\* tareScale as setup() calls it, then either once more as resetScale()
\* calls it, or calibrateScale's sampling and store (lines 160-167).
EstimatorStart ==
  /\ pc = "tare_sample"
  /\ calibratePressed = FALSE
  /\ resetPressed = FALSE
  /\ tare = 0
  /\ lastUpdateTime = 0
  /\ currentTime = 0
  /\ startTime = 0
  /\ sum = 0
  /\ i = 0
  /\ rawKnown = 0
  /\ raw = 0
  /\ weight = {}
  /\ resetRet = "loop"
  /\ tareRet = "setup"
  /\ now = PAUSE_MS
  /\ delayLeft = 0
  /\ ticked = FALSE
  /\ ampStalled = FALSE
  /\ samples = EmptyBag
  /\ tareSource = "constructor"
  /\ took = NoBranch
  /\ bothAtCheck = FALSE
  /\ resetPressSince = FALSE
  /\ iterResetRuns = 0
  /\ resetRoseInWait = FALSE
  /\ calWrote = FALSE
  /\ runsSinceSet = [cal |-> 0, reset |-> 0]
  /\ pressesSinceSet = [cal |-> 0, reset |-> 0]
  /\ refreshAt = {}

TareAgain ==
  /\ pc = "setup_msg"
  /\ Cardinality(BagToSet(samples)) = 1
  /\ CallTare("reset")
  /\ UNCHANGED <<flags, tare, times, rawKnown, raw, weight, resetRet, delayLeft, env,
                 ticked, tareSource, iter, served, refreshAt>>

\* line 160, reached after a tare on a constant reading
SampleKnownWeight ==
  /\ pc = "setup_msg"
  /\ Cardinality(BagToSet(samples)) = 1
  /\ pc' = "cal_sample"
  /\ sum' = 0
  /\ i' = 0
  /\ samples' = EmptyBag
  /\ UNCHANGED <<flags, tare, times, rawKnown, raw, weight, calls, delayLeft,
                 env, ticked, tareSource, iter, served, refreshAt>>

EstimatorNext ==
  \/ TareSample(RawRange)
  \/ TareStore
  \/ TareAgain
  \/ SampleKnownWeight
  \/ CalSample(RawRange)
  \/ CalStore

EstimatorSpec == EstimatorStart /\ [][EstimatorNext]_vars

\* ------------------------------------------------------------------- claims
\* where the main program is inside calibrateScale() (an aborting
\* resetScale() included) or about to clear the calibrate flag
InResetFromCal ==
  /\ pc \in {"reset_pause1", "reset_pause2", "tare_sample", "tare_store"}
  /\ tareRet # "setup" \/ pc \in {"reset_pause1", "reset_pause2"}
  /\ resetRet = "cal"
  /\ took.cal /\ ~took.reset

InCalibrate ==
  \/ pc \in {"wait_cond", "wait_chk", "wait_clear", "cal_sample", "cal_store",
              "cal_pause", "cal_clear"}
  \/ InResetFromCal

\* where resetScale() has just returned to its caller
ResetReturned == pc \in {"wait_clear", "reset_clear"}

Constant(b) == Cardinality(BagToSet(b)) = 1

\* C1: if the reset flag becomes true while calibrateScale is in its wait
\* loop, calibrateScale never writes the calibration-derived tare.
C1_ResetInWaitAbortsCalibration == ~(resetRoseInWait /\ calWrote)

\* C2: after a completed calibration, getWeight at the averaged known-weight
\* reading reports KNOWN_WEIGHT (scaled by COUNT_DIFFERENCE on both sides).
C2_CalibratedWeightIsKnownWeight ==
  pc = "cal_pause" =>
    WeightScaled(rawKnown, tare) = KNOWN_WEIGHT * COUNT_DIFFERENCE

\* C3 as stated: a loop iteration takes at most one of the three branches.
C3_AtMostOneBranch ==
  Cardinality({b \in {"cal", "reset", "refresh"} : took[b]}) <= 1

\* C3 as amended: the calibrate branch is the first one taken, with its flag
\* set until line 112; the reset branch and the refresh exclude each other.
C3_BranchesOfAnIteration ==
  /\ ~(took.reset /\ took.refresh)
  /\ InCalibrate => (took.cal /\ ~took.reset /\ ~took.refresh /\ calibratePressed)

C3_CalibrateThenRefresh == pc = "loop" /\ took.cal /\ took.refresh

\* C4: any two successive updateDisplay calls are at least
\* DISPLAY_UPDATE_INTERVAL of millis() apart.
C4_RefreshAtMostOncePerInterval ==
  [][(pc = "chk_refresh" /\ pc' = "upd_weight")
       => \A t \in refreshAt : now - t >= DISPLAY_UPDATE_INTERVAL]_vars

\* C5: an iteration that finds the interval elapsed and neither flag set
\* runs updateDisplay: one that took no branch at all was not due.
C5_RefreshWhenDue ==
  (pc = "loop" /\ took = NoBranch)
    => currentTime - lastUpdateTime < DISPLAY_UPDATE_INTERVAL

C5_RefreshedWithoutButtons ==
  pc = "loop" /\ took = [cal |-> FALSE, reset |-> FALSE, refresh |-> TRUE]

\* C6: with both flags set at line 110 the calibration never writes tare,
\* the iteration ends with tare the mean of a reset's re-tare, and without
\* further reset presses resetScale ran exactly once.
C6_ResetWinsOverCalibrate ==
  /\ bothAtCheck => ~calWrote
  /\ (pc = "loop" /\ bothAtCheck) =>
       /\ tareSource = "reset"
       /\ BagCardinality(samples) = TARE_SAMPLES
       /\ tare = Mean(samples)
       /\ ~resetPressSince => iterResetRuns = 1

C6_BothServedByOneReset ==
  pc = "loop" /\ bothAtCheck /\ ~resetPressSince /\ iterResetRuns = 1

\* C7: a flag is cleared only after its action has run since the flag went
\* true, and a flag that is set with its action not yet run leads to the run.
C7_PressNotLost ==
  /\ [][(calibratePressed /\ ~calibratePressed') => runsSinceSet.cal >= 1]_vars
  /\ [][(resetPressed /\ ~resetPressed') => runsSinceSet.reset >= 1]_vars
  /\ (calibratePressed /\ runsSinceSet.cal = 0) ~> (runsSinceSet.cal >= 1)
  /\ (resetPressed /\ runsSinceSet.reset = 0) ~> (runsSinceSet.reset >= 1)

\* a calibrate press that came after an earlier calibration's clear is served
C7_LaterPressServed ==
  pc = "wait_cond" /\ tareSource = "calibration" /\ runsSinceSet.cal = 1

\* C8: between a flag going true and its clear the action runs exactly once,
\* however many presses arrive; runs never exceed presses.
C8_PressesCoalesced ==
  /\ \A b \in {"cal", "reset"} :
       /\ runsSinceSet[b] <= 1
       /\ runsSinceSet[b] <= pressesSinceSet[b]
  /\ pc = "cal_clear" => (calibratePressed /\ runsSinceSet.cal = 1)
  /\ ResetReturned => (resetPressed /\ runsSinceSet.reset = 1)

C8_TwoPressesOneRun ==
  pc = "reset_clear" /\ pressesSinceSet.reset >= 2 /\ runsSinceSet.reset = 1

\* C9: when resetScale returns, tare is the truncated mean of the 10 readings
\* of its re-tare; with a constant reading v it is v, and weight(v) = 0.
C9_ResetRetaresToMean ==
  ResetReturned =>
    /\ BagCardinality(samples) = TARE_SAMPLES
    /\ tare = Mean(samples)
    /\ \A v \in BagToSet(samples) :
         Constant(samples) => (tare = v /\ WeightScaled(v, tare) = 0)

C9_AbortResetOnMixedReadings ==
  pc = "wait_clear" /\ ~Constant(samples) /\ tare = Mean(samples)

\* C10: when all 10 readings are v, tareScale leaves tare = v, on the first
\* call and on the next.
C10_TareOfConstantReading ==
  (pc \in {"setup_msg", "reset_clear"} /\ Constant(samples))
    => \A v \in BagToSet(samples) : tare = v

C10_SecondTareOfLowestReading ==
  pc = "reset_clear" /\ BagToSet(samples) = {RAW_MIN} /\ tare = RAW_MIN

\* C11: the weight getWeight computes from reading r is -(r - tare) * factor
\* with factor = 100 / 14785 (times 14785 on both sides); with tare = RAW_0G
\* and r = RAW_100G it is 100.
C11_WeightFormula ==
  pc = "upd_count" =>
    /\ weight # {}
    /\ \A w \in weight :
         /\ w = (tare - raw) * 100
         /\ (tare = 16773520 /\ raw = 16758735) => w = 100 * 14785

C11_HundredGrams ==
  pc = "upd_count" /\ tare = RAW_0G /\ raw = RAW_100G
    /\ weight = {WEIGHT_DIFFERENCE * COUNT_DIFFERENCE}

\* what a handler must leave alone besides the other button's flag
HandlerFrame == <<pc, tare, lastUpdateTime>>

\* C12: a handler sets its own flag and changes neither the other flag,
\* tare, lastUpdateTime nor the main program's position; a flag falls only
\* in a step of the main program at the line that clears it.
C12_HandlersOnlySetTheirFlag ==
  /\ [][onCalibrateButtonPress =>
         (calibratePressed' /\ UNCHANGED <<resetPressed, HandlerFrame>>)]_vars
  /\ [][onResetButtonPress =>
         (resetPressed' /\ UNCHANGED <<calibratePressed, HandlerFrame>>)]_vars
  /\ [][(~calibratePressed /\ calibratePressed') =>
         UNCHANGED <<resetPressed, HandlerFrame>>]_vars
  /\ [][(~resetPressed /\ resetPressed') =>
         UNCHANGED <<calibratePressed, HandlerFrame>>]_vars
  /\ [][(calibratePressed /\ ~calibratePressed') =>
         (pc = "cal_clear" /\ pc' # pc)]_vars
  /\ [][(resetPressed /\ ~resetPressed') =>
         (ResetReturned /\ pc' # pc)]_vars

\* both handlers have run while the main program was inside updateDisplay
C12_BothPressedDuringRefresh ==
  /\ pc = "upd_count"
  /\ calibratePressed /\ resetPressed
  /\ pressesSinceSet.cal >= 2 /\ pressesSinceSet.reset >= 2
  /\ runsSinceSet = [cal |-> 0, reset |-> 0]

\* the polling part of loop() and the display refresh
IdleLocs == {"loop", "chk_cal", "chk_reset", "chk_refresh"}
RefreshLocs == {"upd_weight", "upd_count", "upd_stamp"}

\* a step of the main program from s to t
MainStep(s, t) == pc \in s /\ pc' \in t /\ pc' # pc

\* C13: tare is written only by tareScale's store (startup or reset), by
\* calibrateScale's store and by resetScale's zeroing; the statements of a
\* display refresh and of an iteration that takes no branch leave tare and
\* both flags as they are.
C13_TareWrittenOnlyByTareCalibrateReset ==
  /\ [][tare' # tare =>
         \/ MainStep({"tare_store"}, {"setup_msg", "wait_clear", "reset_clear"})
         \/ MainStep({"cal_store"}, {"cal_pause"})
         \/ MainStep({"wait_chk", "chk_reset"}, {"reset_pause1"}) /\ tare' = 0]_vars
  /\ [][MainStep(IdleLocs \cup RefreshLocs, IdleLocs \cup RefreshLocs) =>
         UNCHANGED <<tare, tareSource, calibratePressed, resetPressed>>]_vars

\* a refresh has shown a weight against the startup tare; both buttons were
\* pressed while it ran and their flags are still set after it
C13_RefreshKeepsTareAndFlags ==
  /\ pc = "loop" /\ took = [cal |-> FALSE, reset |-> FALSE, refresh |-> TRUE]
  /\ tareSource = "startup" /\ tare = Mean(samples)
  /\ calibratePressed /\ resetPressed

\* the main program waits in a read of tareScale or of calibrateScale's
\* sampling, and the amplifier delivers no more
HungSampling == ampStalled /\ pc \in {"tare_sample", "cal_sample"}

\* C14: once the amplifier stalls inside tareScale or the calibration
\* sampling the main program stays there for good: no step moves it, writes
\* tare, clears a flag or refreshes the display; handlers still set flags.
C14_StalledReadHangsForever ==
  [][HungSampling =>
       /\ HungSampling'
       /\ pc' = pc
       /\ UNCHANGED <<tare, tareSource, sum, i, samples, took, weight>>
       /\ calibratePressed => calibratePressed'
       /\ resetPressed => resetPressed']_vars

\* hung in the calibration sampling, with a reset press that arrived since
\* and is never served
C14_HungWithResetPending ==
  /\ HungSampling /\ pc = "cal_sample" /\ i > 0
  /\ resetPressed /\ pressesSinceSet.reset >= 2 /\ runsSinceSet.reset = 0

\* Idle: loop() is at its head, polling; inside an action otherwise (setup()
\* ends in Idle as well)
Idle == pc = "loop"

\* C15: with reads that return and a clock that advances, the controller is
\* in Idle again and again: a calibration (completed or aborted) and a reset
\* each end, whatever is pressed meanwhile.
C15_AlwaysBackToIdle ==
  /\ []<>Idle
  /\ InCalibrate ~> (pc = "chk_reset")
  /\ (pc = "reset_pause1") ~> ResetReturned

\* back in Idle after an iteration that calibrated and then reset
C15_IdleAfterCalibrateAndReset ==
  Idle /\ took.cal /\ took.reset /\ calWrote /\ tareSource = "reset"

\* the calibrate branch of this iteration is over and it was aborted: it
\* wrote no tare
AbortedCalibrationOver == took.cal /\ ~calWrote /\ ~InCalibrate

\* C16: an aborted calibration consumes its request: line 112 clears the
\* flag after the abort path too (presses that came during the aborting
\* reset go with it), so a calibrate flag seen set later in the iteration
\* is a new press on which no calibration has run yet.
C16_AbortConsumesCalibrateRequest ==
  /\ [](AbortedCalibrationOver =>
          (calibratePressed =>
             (runsSinceSet.cal = 0 /\ pressesSinceSet.cal >= 1)))
  /\ []((pc = "cal_clear" /\ ~calWrote) =>
          (iterResetRuns = 1 /\ tareSource = "reset" /\ calibratePressed))
  /\ [][(pc = "cal_clear" /\ pc' # pc) =>
          (pc' = "chk_reset" /\ ~calibratePressed'
             /\ pressesSinceSet'.cal = 0)]_vars

C16_AbortedAndCleared ==
  /\ pc = "chk_reset" /\ AbortedCalibrationOver
  /\ iterResetRuns = 1 /\ tareSource = "reset"
  /\ ~calibratePressed /\ ~resetPressed

\* calibrateScale() past its wait loop, up to the clearing of its flag
PostWaitLocs == {"cal_sample", "cal_store", "cal_pause", "cal_clear"}

\* C17: a reset flag set while calibrateScale is past its wait stays set up
\* to line 116, with no refresh in between; the calibration writes its tare,
\* line 116 then runs resetScale in the same iteration, which takes no
\* refresh, and the iteration ends with the re-tare mean in tare.
C17_LateResetOverwritesCalibration ==
  /\ [][(pc \in PostWaitLocs /\ resetPressed) =>
         (resetPressed' /\ pc' \in PostWaitLocs \cup {"chk_reset"})]_vars
  /\ []((pc \in {"cal_pause", "cal_clear"} /\ ~(iterResetRuns >= 1)) =>
          (calWrote /\ tareSource = "calibration"))
  /\ [][(pc = "chk_reset" /\ calWrote /\ resetPressed /\ pc' # pc) =>
         (pc' = "reset_pause1" /\ tare' = 0 /\ tareSource' = "zero"
            /\ took'.reset)]_vars
  /\ []((calWrote /\ took.reset) =>
          (~took.refresh /\ tareSource # "calibration" /\ weight = {}))
  /\ []((pc = "loop" /\ calWrote /\ took.reset) =>
          (tareSource = "reset" /\ tare = Mean(samples)))

\* the calibrated tare has just been zeroed by the reset of the same iteration
C17_CalibratedTareZeroed ==
  /\ pc = "reset_pause1" /\ resetRet = "loop"
  /\ calWrote /\ took.cal /\ took.reset /\ tare = 0

\* the mean m lies between the smallest and the largest reading of bag b
Between(m, b) == \E lo, hi \in BagToSet(b) : lo <= m /\ m <= hi

\* C18: in both sampling loops the long sum is the true sum of the readings
\* so far (it never wraps) and stays within i times the raw range; the
\* stored mean is the truncated mean of the 10 readings and lies between
\* the smallest and the largest of them.
C18_SumNeverOverflows ==
  /\ pc \in {"tare_sample", "tare_store", "cal_sample", "cal_store"} =>
       /\ BagCardinality(samples) = i
       /\ sum = BagSum(samples)
       /\ i * RAW_MIN <= sum /\ sum <= i * RAW_MAX
       /\ LONG_MIN <= TARE_SAMPLES * RAW_MIN /\ TARE_SAMPLES * RAW_MAX <= LONG_MAX
  /\ pc \in {"setup_msg", "reset_clear"} =>
       (tare = Mean(samples) /\ Between(tare, samples))
  /\ pc = "cal_pause" =>
       (rawKnown = Mean(samples) /\ Between(rawKnown, samples))

\* ten readings of the highest raw value have been summed and averaged
C18_TenHighestReadings ==
  pc = "cal_pause" /\ samples = [v \in {RAW_MAX} |-> TARE_SAMPLES]
    /\ rawKnown = RAW_MAX

====
